---- MODULE Spec2Model ----
(***************************************************************************)
(* Email-campaign KPI pipeline of the multichannel KPI dashboard:          *)
(*   DataProcessor.process_campaigns  (email_campaigns/data/processor.py)  *)
(*   calculate_kpis, calculate_campaign_kpis, calculate_filtered_kpis,     *)
(*   calculate_filtered_workspace_kpis (email_campaigns/services/metrics.py)*)
(* driven the way email_campaigns/components/dashboard.py drives them:     *)
(* load_email_data normalises the fetched records once, the render         *)
(* functions then compute KPI dictionaries from the normalised tables.     *)
(*                                                                         *)
(* Numbers.  Counts are naturals.  A float that results from a division is *)
(* kept exactly, as a fraction in lowest terms [n, d]:                     *)
(*   d > 0          a finite value n/d                                     *)
(*   n = 1, d = 0   +inf  (pandas: x / 0 for x > 0)                        *)
(*   n = 0, d = 0   NaN   (pandas: 0 / 0)                                  *)
(***************************************************************************)
EXTENDS Integers, Sequences, FiniteSets, TLC

\* ------------------------------------------------------------------ bounds
MaxCampaigns == 2   \* raw campaign records fetched
MaxLeads     == 2   \* lead rows fetched
MaxId        == 2   \* campaign identifiers 1..MaxId
MaxCount     == 2   \* leads_contacted of a raw campaign record
MaxBounced   == 1   \* bounced of a raw campaign record
MaxReplies   == 1   \* unique_replies of a lead
EmailsSent   == 3   \* emails_sent of a raw campaign record
StaleValue   == 7   \* value a source-store aggregate column carries

\* -------------------------------------------------------------- arithmetic
RECURSIVE GCD(_, _)
GCD(a, b) == IF b = 0 THEN a ELSE GCD(b, a % b)

\* numerator / denominator for non-negative operands, as numpy divides
\* float64 values: x/0 is inf for x > 0, 0/0 is NaN, no exception.
NaN == [n |-> 0, d |-> 0]
Inf == [n |-> 1, d |-> 0]

Div(num, den) ==
    IF den = 0
    THEN (IF num = 0 THEN NaN ELSE Inf)
    ELSE LET g == GCD(num, den) IN [n |-> num \div g, d |-> den \div g]

Zero == Div(0, 1)
IsNaN(x) == x = NaN

\* Series.fillna(0) on a float column: only NaN is replaced, inf is kept.
FillNa(x) == IF IsNaN(x) THEN Zero ELSE x

\* x * 100 on a float: inf * 100 = inf, NaN * 100 = NaN.
Times100(x) == IF x.d = 0 THEN x ELSE Div(x.n * 100, x.d)

\* a <= b for finite fractions
Leq(a, b) == a.n * b.d <= b.n * a.d
\* a + b for finite fractions
Plus(a, b) == Div(a.n * b.d + b.n * a.d, a.d * b.d)

RECURSIVE SumSeq(_)
SumSeq(s) == IF s = <<>> THEN 0 ELSE Head(s) + SumSeq(Tail(s))

\* the rows of table t at the positions in idx, in table order (df[mask])
RECURSIVE SubTableFrom(_, _, _)
SubTableFrom(t, idx, i) ==
    IF i > Len(t) THEN <<>>
    ELSE (IF i \in idx THEN <<t[i]>> ELSE <<>>) \o SubTableFrom(t, idx, i + 1)

SubTable(t, idx) == SubTableFrom(t, idx, 1)

\* Series.sum() of column c
ColSum(t, c) == SumSeq([i \in 1..Len(t) |-> t[i][c]])

\* (Series == v).sum() / Series.isin(vals).sum() of the status column
StatusCount(t, vals) == Cardinality({i \in 1..Len(t) : t[i].status \in vals})

\* (Series >= 1).sum() of the unique_replies column
RepliedCount(t) == Cardinality({i \in 1..Len(t) : t[i].unique_replies >= 1})

\* ------------------------------------------------------------------ inputs
Statuses ==
    {"Interested", "Not Interested", "Automated Reply",
     "Objection", "Objections", "Revisit Later"}

\* A lead row as process_leads returns it (campaign_id an integer,
\* is_human_reply and unique_replies numeric, status a stripped string).
\* The status is independent of the two reply columns; a lead flagged as a
\* human reply has replied at least once.
LeadRows ==
    {l \in [campaign_id : 1..MaxId, status : Statuses,
            is_human_reply : 0..1, unique_replies : 0..MaxReplies] :
        l.is_human_reply = 1 => l.unique_replies >= 1}

\* A raw campaign record of the source store.  has_src: the record carries
\* the six aggregate columns (human_reply, interested_sementic, ...) with the
\* value StaleValue; a record without them is NaN in those columns whenever
\* another record of the list makes the columns exist.
CampaignRecords ==
    [campaign_id : 1..MaxId, emails_sent : {EmailsSent},
     leads_contacted : 0..MaxCount, bounced : 0..MaxBounced, has_src : BOOLEAN]

Tables(rows, maxLen) == UNION {[1..k -> rows] : k \in 0..maxLen}

calc_cols ==
    {"human_reply", "interested_sementic", "not_interested",
     "automated_replies", "total_replies", "objection"}

\* ------------------------------------------- DataProcessor.process_campaigns
\* A cell of a count column before fillna: a number or NaN.
Num(v)  == [nan |-> FALSE, v |-> v]
NaNCell == [nan |-> TRUE, v |-> 0]
CellFillNa(c) == IF c.nan THEN 0 ELSE c.v

\* The aggregation block runs only for a lead table that is given and not
\* empty (its campaign_id column always exists after process_leads).
HasLeads(arg, leads) == arg = "table" /\ leads # <<>>

\* leads_df.groupby('campaign_id'): the keys and the rows of one group
GroupKeys(leads) == {leads[i].campaign_id : i \in 1..Len(leads)}
Group(leads, g) == SubTable(leads, {i \in 1..Len(leads) : leads[i].campaign_id = g})

\* the six named aggregations of one group x
agg_human_reply(x)          == ColSum(x, "is_human_reply")
agg_interested_with_objection(x) == StatusCount(x, {"Interested", "Objection"})
agg_interested_sementic(x)  == StatusCount(x, {"Interested"})
agg_not_interested(x)       == StatusCount(x, {"Not Interested"})
agg_automated_replies(x)    == StatusCount(x, {"Automated Reply"})
agg_total_replies(x)        == RepliedCount(x)
agg_objection(x)            == StatusCount(x, {"Objection", "Objections"})

agg_stats(leads) ==
    [g \in GroupKeys(leads) |->
        LET x == Group(leads, g) IN
        [human_reply         |-> agg_human_reply(x),
         interested_sementic |-> agg_interested_sementic(x),
         not_interested      |-> agg_not_interested(x),
         automated_replies   |-> agg_automated_replies(x),
         total_replies       |-> agg_total_replies(x),
         objection           |-> agg_objection(x)]]

\* the source-store columns exist in df when any raw record carries them
SrcColsExist(data) == \E i \in 1..Len(data) : data[i].has_src
SrcCell(rec) == IF rec.has_src THEN Num(StaleValue) ELSE NaNCell

\* df.merge(agg_stats, on='campaign_id', how='left'): the value the merge
\* brings for column col into the row of raw record rec
merge_left(rec, col, stats) ==
    IF rec.campaign_id \in DOMAIN stats
    THEN Num(stats[rec.campaign_id][col]) ELSE NaNCell

inner_rows(data, stats) ==
    SubTable(data, {i \in 1..Len(data) : data[i].campaign_id \in DOMAIN stats})

\* how='left': the merge keeps every row of df, in order, and adds none
\* (agg_stats has one row per key)
left_rows(data, stats) == data

\* the calc_cols loop after the merge.  When the source carried the column
\* the merge leaves the source value under col and the leads-derived value
\* under col_calc; the loop then copies col_calc over col and drops it.
fill_calc_col_keep_source(rec, col, srcCols, stats) ==
    CellFillNa(IF srcCols THEN SrcCell(rec) ELSE merge_left(rec, col, stats))

fill_calc_col(rec, col, srcCols, stats) ==
    LET kept == CellFillNa(IF srcCols THEN SrcCell(rec)
                           ELSE merge_left(rec, col, stats))
    IN  IF srcCols THEN CellFillNa(merge_left(rec, col, stats)) ELSE kept

\* the numeric_cols loop for a column the aggregation block did not write
numeric_col(rec, srcCols) ==
    IF srcCols THEN CellFillNa(SrcCell(rec)) ELSE 0

count_col(rec, col, srcCols, hasLeads, stats) ==
    IF hasLeads THEN fill_calc_col(rec, col, srcCols, stats)
    ELSE numeric_col(rec, srcCols)

\* the rate columns, as fractions (not percentages)
total_reply_rate(r) == FillNa(Div(r.total_replies, r.leads_contacted))
bounce_rate(r)      == FillNa(Div(r.bounced, r.leads_contacted))
human_reply_rate(r) == FillNa(Div(r.human_reply, r.leads_contacted))
semantic_interested_reply_rate(r) ==
    IF r.human_reply > 0 THEN Div(r.interested_sementic, r.human_reply) ELSE Zero
not_interested_reply_rate(r) ==
    IF r.human_reply > 0 THEN Div(r.not_interested, r.human_reply) ELSE Zero
automated_reply_rate_vs_human(r) ==
    IF r.human_reply > 0 THEN Div(r.automated_replies, r.human_reply) ELSE Zero
automated_reply_rate(r) ==
    IF r.leads_contacted > 0 THEN Div(r.automated_replies, r.leads_contacted) ELSE Zero
objection_rate(r) ==
    IF r.human_reply > 0 THEN Div(r.objection, r.human_reply) ELSE Zero

counts_row(rec, srcCols, hasLeads, stats) ==
    [campaign_id         |-> rec.campaign_id,
     emails_sent         |-> rec.emails_sent,
     leads_contacted     |-> rec.leads_contacted,
     bounced             |-> rec.bounced,
     human_reply         |-> count_col(rec, "human_reply", srcCols, hasLeads, stats),
     interested_sementic |-> count_col(rec, "interested_sementic", srcCols, hasLeads, stats),
     not_interested      |-> count_col(rec, "not_interested", srcCols, hasLeads, stats),
     automated_replies   |-> count_col(rec, "automated_replies", srcCols, hasLeads, stats),
     total_replies       |-> count_col(rec, "total_replies", srcCols, hasLeads, stats),
     objection           |-> count_col(rec, "objection", srcCols, hasLeads, stats)]

rate_cols ==
    {"total_reply_rate", "bounce_rate", "human_reply_rate",
     "semantic_interested_reply_rate", "not_interested_reply_rate",
     "automated_reply_rate", "objection_rate"}

with_rates(r) ==
    [c \in DOMAIN r \cup rate_cols |->
        CASE c = "total_reply_rate"               -> total_reply_rate(r)
          [] c = "bounce_rate"                    -> bounce_rate(r)
          [] c = "human_reply_rate"               -> human_reply_rate(r)
          [] c = "semantic_interested_reply_rate" -> semantic_interested_reply_rate(r)
          [] c = "not_interested_reply_rate"      -> not_interested_reply_rate(r)
          [] c = "automated_reply_rate"           -> automated_reply_rate(r)
          [] c = "objection_rate"                 -> objection_rate(r)
          [] OTHER                                -> r[c]]

process_campaigns(data, arg, leads) ==
    IF data = <<>> THEN <<>>
    ELSE LET hasLeads == HasLeads(arg, leads)
             stats    == IF hasLeads THEN agg_stats(leads) ELSE <<>>
             srcCols  == SrcColsExist(data)
             rows     == IF hasLeads THEN left_rows(data, stats) ELSE data
         IN [i \in 1..Len(rows) |->
                with_rates(counts_row(rows[i], srcCols, hasLeads, stats))]

\* ------------------------------------------------- services/metrics.py
\* The KPI dictionaries are records; a key the code does not put into a
\* dictionary is absent from the record's DOMAIN.
Guarded(num, den) == IF den > 0 THEN Div(num * 100, den) ELSE Zero

EmptyKpis ==
    [total_sent |-> 0, total_contacted |-> 0, overall_reply_rate |-> Zero,
     bounce_rate |-> Zero, replies |-> 0, bounces |-> 0,
     human_reply_rate |-> Zero, human_replies |-> 0,
     interested_rate |-> Zero, interested_replies |-> 0,
     not_interested_rate |-> Zero, not_interested_replies |-> 0,
     automated_rate |-> Zero, automated_replies |-> 0]

calculate_kpis(df) ==
    IF df = <<>> THEN EmptyKpis
    ELSE LET total_sent        == ColSum(df, "emails_sent")
             total_contacted   == ColSum(df, "leads_contacted")
             total_replies     == ColSum(df, "total_replies")
             total_bounces     == ColSum(df, "bounced")
             human_replies     == ColSum(df, "human_reply")
             interested        == ColSum(df, "interested_sementic")
             not_interested    == ColSum(df, "not_interested")
             automated         == ColSum(df, "automated_replies")
             objection         == ColSum(df, "objection")
         IN [total_sent             |-> total_sent,
             total_contacted        |-> total_contacted,
             overall_reply_rate     |-> Guarded(total_replies, total_contacted),
             bounce_rate            |-> Guarded(total_bounces, total_contacted),
             replies                |-> total_replies,
             bounces                |-> total_bounces,
             human_reply_rate       |-> Guarded(human_replies, total_contacted),
             human_replies          |-> human_replies,
             interested_rate        |-> Guarded(interested, human_replies),
             interested_replies     |-> interested,
             not_interested_rate    |-> Guarded(not_interested, human_replies),
             not_interested_replies |-> not_interested,
             automated_rate         |-> Guarded(automated, total_contacted),
             automated_replies      |-> automated,
             objection_rate         |-> Guarded(objection, human_replies),
             objection              |-> objection]

\* campaign_row.get(key, 0); every key read below is a column of the row
get_val(row, key) == row[key]

get_rate_unscaled(row, key) == get_val(row, key)

\* get_val(key, 0) * 100
get_rate(row, key) == Times100(get_val(row, key))

\* campaign_row is a row of the processed table: never an empty Series, and
\* it has no column spelled interested_semantic.
calculate_campaign_kpis(row) ==
    [total_sent             |-> get_val(row, "emails_sent"),
     total_contacted        |-> get_val(row, "leads_contacted"),
     overall_reply_rate     |-> get_rate(row, "total_reply_rate"),
     bounce_rate            |-> get_rate(row, "bounce_rate"),
     replies                |-> get_val(row, "total_replies"),
     bounces                |-> get_val(row, "bounced"),
     human_reply_rate       |-> get_rate(row, "human_reply_rate"),
     human_replies          |-> get_val(row, "human_reply"),
     interested_rate        |-> get_rate(row, "semantic_interested_reply_rate"),
     interested_replies     |-> get_val(row, "interested_sementic"),
     not_interested_rate    |-> get_rate(row, "not_interested_reply_rate"),
     not_interested_replies |-> get_val(row, "not_interested"),
     automated_rate         |-> get_rate(row, "automated_reply_rate"),
     automated_replies      |-> get_val(row, "automated_replies"),
     objection_rate         |-> get_rate(row, "objection_rate"),
     objection              |-> get_val(row, "objection")]

\* campaign_row is a row of the processed table (never an empty Series).
calculate_filtered_kpis(row, filtered) ==
    LET total_sent      == row.emails_sent
        total_contacted == row.leads_contacted
    IN
    IF filtered = <<>>
    THEN [total_sent |-> total_sent, total_contacted |-> total_contacted,
          overall_reply_rate |-> Zero, bounce_rate |-> Zero,
          replies |-> 0, bounces |-> 0,
          human_reply_rate |-> Zero, human_replies |-> 0,
          interested_rate |-> Zero, interested_replies |-> 0,
          not_interested_rate |-> Zero, not_interested_replies |-> 0,
          automated_rate |-> Zero, automated_replies |-> 0,
          objection_rate |-> Zero, objection |-> 0]
    ELSE LET human_replies  == ColSum(filtered, "is_human_reply")
             interested     == StatusCount(filtered, {"Interested"})
             not_interested == StatusCount(filtered, {"Not Interested"})
             automated      == StatusCount(filtered, {"Automated Reply"})
             objection      == StatusCount(filtered, {"Objection", "Objections"})
             total_replies  == RepliedCount(filtered)
         IN [total_sent             |-> total_sent,
             total_contacted        |-> total_contacted,
             overall_reply_rate     |-> Guarded(total_replies, total_contacted),
             bounce_rate            |-> calculate_campaign_kpis(row).bounce_rate,
             replies                |-> total_replies,
             bounces                |-> calculate_campaign_kpis(row).bounces,
             human_reply_rate       |-> Guarded(human_replies, total_contacted),
             human_replies          |-> human_replies,
             interested_rate        |-> Guarded(interested, human_replies),
             interested_replies     |-> interested,
             not_interested_rate    |-> Guarded(not_interested, human_replies),
             not_interested_replies |-> not_interested,
             automated_rate         |-> Guarded(automated, total_contacted),
             automated_replies      |-> automated,
             objection_rate         |-> Guarded(objection, human_replies),
             objection              |-> objection]

calculate_filtered_workspace_kpis(df, filtered) ==
    IF df = <<>> THEN calculate_kpis(df)
    ELSE
    LET total_sent      == ColSum(df, "emails_sent")
        total_contacted == ColSum(df, "leads_contacted")
        total_bounces   == ColSum(df, "bounced")
    IN
    IF filtered = <<>>
    THEN [total_sent |-> total_sent, total_contacted |-> total_contacted,
          overall_reply_rate |-> Zero,
          bounce_rate |-> Guarded(total_bounces, total_contacted),
          replies |-> 0, bounces |-> total_bounces,
          human_reply_rate |-> Zero, human_replies |-> 0,
          interested_rate |-> Zero, interested_replies |-> 0,
          not_interested_rate |-> Zero, not_interested_replies |-> 0,
          automated_rate |-> Zero, automated_replies |-> 0,
          objection_rate |-> Zero, objection |-> 0]
    ELSE LET human_replies  == ColSum(filtered, "is_human_reply")
             interested     == StatusCount(filtered, {"Interested"})
             not_interested == StatusCount(filtered, {"Not Interested"})
             automated      == StatusCount(filtered, {"Automated Reply"})
             objection      == StatusCount(filtered, {"Objection", "Objections"})
             total_replies  == RepliedCount(filtered)
         IN [total_sent             |-> total_sent,
             total_contacted        |-> total_contacted,
             overall_reply_rate     |-> Guarded(total_replies, total_contacted),
             bounce_rate            |-> Guarded(total_bounces, total_contacted),
             replies                |-> total_replies,
             bounces                |-> total_bounces,
             human_reply_rate       |-> Guarded(human_replies, total_contacted),
             human_replies          |-> human_replies,
             interested_rate        |-> Guarded(interested, human_replies),
             interested_replies     |-> interested,
             not_interested_rate    |-> Guarded(not_interested, human_replies),
             not_interested_replies |-> not_interested,
             automated_rate         |-> Guarded(automated, total_contacted),
             automated_replies      |-> automated,
             objection_rate         |-> Guarded(objection, human_replies),
             objection              |-> objection]

\* ------------------------------------------------------------ state machine
VARIABLES
    campaigns_data,  \* raw campaign records handed to process_campaigns
    leads_arg,       \* "none": leads_df=None; "table": a lead table is passed
    leads_df,        \* the lead table returned by process_leads
    campaigns_df,    \* the table returned by process_campaigns
    pc,              \* "fetched", "loaded" (tables processed), "rendered"
    call,            \* the last KPI call: function and argument rows
    kpis,            \* the dictionary the last KPI call returned
    now,             \* datetime.now() of a get_date_range call, in seconds
    date_call,       \* the get_date_range call: module, token, custom bounds
    date_range,      \* the (start, end) pair get_date_range returned
    date_df,         \* the table handed to filter_dataframe_by_date
    date_filtered,   \* the table filter_dataframe_by_date returned
    dpc,             \* "idle", "selected", "resolved", "filtered"
    raw_records,     \* raw records handed to a normalizer
    normalized,      \* what the normalizer returned
    renormalized,    \* what it returned for its own output
    npc,             \* "idle", "fetched", "normalized", "renormalized"
    store,           \* the external store: campaign rows, lead rows, its behaviour
    cache,           \* the entries of st.cache_data
    db,              \* the DatabaseClient call in progress, with its retry loop
    api              \* the API or repository operation in progress

dashVars == <<campaigns_data, leads_arg, leads_df, campaigns_df, pc, call, kpis>>
dateVars == <<now, date_call, date_range, date_df, date_filtered, dpc>>
normVars == <<raw_records, normalized, renormalized, npc>>
storeVars == <<store, cache, db, api>>
vars == <<dashVars, dateVars, normVars, storeVars>>

\* the date resolver and the normalizers at rest
DateIdle ==
    /\ now = 0 /\ date_call = <<>> /\ date_range = <<>>
    /\ date_df = <<>> /\ date_filtered = <<>> /\ dpc = "idle"
StoreIdle == store = <<>> /\ cache = {} /\ db = <<>> /\ api = <<>>
NormIdle ==
    raw_records = <<>> /\ normalized = <<>> /\ renormalized = <<>> /\ npc = "idle"

NoCall == [fn |-> "none", rows |-> {}, leads |-> {}]

\* process_campaigns as a function of any input: the lead table may be
\* missing, empty or filled, the source store may carry the aggregate columns.
InitProcess ==
    /\ campaigns_data \in Tables(CampaignRecords, MaxCampaigns)
    /\ leads_arg \in {"none", "table"}
    /\ leads_df \in Tables(LeadRows, MaxLeads)
    /\ leads_arg = "none" => leads_df = <<>>
    /\ campaigns_df = <<>>
    /\ pc = "fetched"
    /\ call = NoCall
    /\ kpis = <<>>
    /\ DateIdle
    /\ NormIdle
    /\ StoreIdle

\* The dashboard: load_email_data always passes the lead table, and the
\* source store has no aggregate columns (processor.py lines 153-158).
Init ==
    /\ InitProcess
    /\ leads_arg = "table"
    /\ ~SrcColsExist(campaigns_data)
    /\ \A i, j \in 1..Len(campaigns_data) :
         campaigns_data[i].campaign_id = campaigns_data[j].campaign_id => i = j

\* load_email_data: process_campaigns(campaigns_raw, leads_df)
ProcessCampaigns ==
    /\ pc = "fetched"
    /\ campaigns_df' = process_campaigns(campaigns_data, leads_arg, leads_df)
    /\ pc' = "loaded"
    /\ UNCHANGED <<campaigns_data, leads_arg, leads_df, call, kpis, dateVars, normVars, storeVars>>

\* calculate_kpis on the processed table
CalculateKpis ==
    /\ pc = "loaded"
    /\ \E S \in {1..Len(campaigns_df)} :
         /\ call' = [fn |-> "calculate_kpis", rows |-> S, leads |-> {}]
         /\ kpis' = calculate_kpis(SubTable(campaigns_df, S))
    /\ pc' = "rendered"
    /\ UNCHANGED <<campaigns_data, leads_arg, leads_df, campaigns_df, dateVars, normVars, storeVars>>

\* calculate_campaign_kpis on one row of the processed table
CalculateCampaignKpis ==
    /\ pc = "loaded"
    /\ \E i \in 1..Len(campaigns_df) :
         /\ call' = [fn |-> "calculate_campaign_kpis", rows |-> {i}, leads |-> {}]
         /\ kpis' = calculate_campaign_kpis(campaigns_df[i])
    /\ pc' = "rendered"
    /\ UNCHANGED <<campaigns_data, leads_arg, leads_df, campaigns_df, dateVars, normVars, storeVars>>

\* render_campaign_analysis: the leads of the selected campaign, then the
\* date filter (any subset of them), then calculate_filtered_kpis
CalculateFilteredKpis ==
    /\ pc = "loaded"
    /\ \E i \in 1..Len(campaigns_df) :
       \E F \in SUBSET {j \in 1..Len(leads_df) :
                        leads_df[j].campaign_id = campaigns_df[i].campaign_id} :
         /\ call' = [fn |-> "calculate_filtered_kpis", rows |-> {i}, leads |-> F]
         /\ kpis' = calculate_filtered_kpis(campaigns_df[i], SubTable(leads_df, F))
    /\ pc' = "rendered"
    /\ UNCHANGED <<campaigns_data, leads_arg, leads_df, campaigns_df, dateVars, normVars, storeVars>>

\* render_workspace_overview with "All Workspaces": every campaign, the leads
\* of those campaigns, then the date filter (any subset of them), then
\* calculate_filtered_workspace_kpis
CalculateFilteredWorkspaceKpis ==
    /\ pc = "loaded"
    /\ \E S \in {1..Len(campaigns_df)} :
       \E F \in SUBSET {j \in 1..Len(leads_df) :
                        \E i \in S : leads_df[j].campaign_id = campaigns_df[i].campaign_id} :
         /\ call' = [fn |-> "calculate_filtered_workspace_kpis", rows |-> S, leads |-> F]
         /\ kpis' = calculate_filtered_workspace_kpis(SubTable(campaigns_df, S),
                                                      SubTable(leads_df, F))
    /\ pc' = "rendered"
    /\ UNCHANGED <<campaigns_data, leads_arg, leads_df, campaigns_df, dateVars, normVars, storeVars>>

Next ==
    \/ ProcessCampaigns
    \/ CalculateKpis
    \/ CalculateCampaignKpis
    \/ CalculateFilteredKpis
    \/ CalculateFilteredWorkspaceKpis

Spec == Init /\ [][Next]_vars

NextProcess == ProcessCampaigns

SpecProcess == InitProcess /\ [][NextProcess]_vars

TypeOK == pc \in {"idle", "fetched", "loaded", "rendered"}

\* ------------------------------------------------------------- properties
Rows == 1..Len(campaigns_df)
Processed == pc # "fetched"
Called(fn) == pc = "rendered" /\ call.fn = fn
\* the row a single-campaign KPI call was made for
CalledRow == CHOOSE i \in call.rows : TRUE
\* the positions of the leads that reference campaign id
LeadsOf(id) == {j \in 1..Len(leads_df) : leads_df[j].campaign_id = id}
HumanIn(F) == Cardinality({j \in F : leads_df[j].is_human_reply = 1})
Pct(num, den) == Div(100 * num, den)

\* C1  Two-tier denominator policy.  In every processed campaign row with
\* leads_contacted > 0 the bounce, total-reply, human-reply and automated
\* rates are numerator / leads_contacted, and with human_reply > 0 the
\* interested, not-interested and objection rates are numerator / human_reply;
\* calculate_kpis does the same with the column sums (as percentages).
C1_TwoTierDenominators ==
    /\ Processed =>
         \A i \in Rows :
           LET r == campaigns_df[i] IN
           /\ r.leads_contacted > 0 =>
                /\ r.bounce_rate = Div(r.bounced, r.leads_contacted)
                /\ r.total_reply_rate = Div(r.total_replies, r.leads_contacted)
                /\ r.human_reply_rate = Div(r.human_reply, r.leads_contacted)
                /\ r.automated_reply_rate = Div(r.automated_replies, r.leads_contacted)
           /\ r.human_reply > 0 =>
                /\ r.semantic_interested_reply_rate = Div(r.interested_sementic, r.human_reply)
                /\ r.not_interested_reply_rate = Div(r.not_interested, r.human_reply)
                /\ r.objection_rate = Div(r.objection, r.human_reply)
    /\ (Called("calculate_kpis") /\ campaigns_df # <<>>) =>
         LET contacted == ColSum(campaigns_df, "leads_contacted")
             human     == ColSum(campaigns_df, "human_reply")
         IN
         /\ contacted > 0 =>
              /\ kpis.bounce_rate = Pct(ColSum(campaigns_df, "bounced"), contacted)
              /\ kpis.overall_reply_rate = Pct(ColSum(campaigns_df, "total_replies"), contacted)
              /\ kpis.human_reply_rate = Pct(human, contacted)
              /\ kpis.automated_rate = Pct(ColSum(campaigns_df, "automated_replies"), contacted)
         /\ human > 0 =>
              /\ kpis.interested_rate = Pct(ColSum(campaigns_df, "interested_sementic"), human)
              /\ kpis.not_interested_rate = Pct(ColSum(campaigns_df, "not_interested"), human)
              /\ kpis.objection_rate = Pct(ColSum(campaigns_df, "objection"), human)

\* C1 witness: calculate_kpis ran on a table with a row whose two
\* denominators are both non-zero and differ, with non-zero numerators.
C1_Witness ==
    /\ Called("calculate_kpis")
    /\ \E i \in Rows :
         LET r == campaigns_df[i] IN
         /\ r.leads_contacted = 2 /\ r.human_reply = 1 /\ r.bounced = 1
         /\ r.automated_replies = 1 /\ r.interested_sementic = 1
         /\ r.automated_reply_rate = Div(1, 2)
         /\ r.semantic_interested_reply_rate = Div(1, 1)

\* C2  Zero-denominator safety.  Whenever a rate's denominator count is 0 the
\* reported rate is exactly 0, in every processed campaign row and in every
\* KPI dictionary, whatever the numerator.
C2_ZeroDenominatorIsZero ==
    /\ Processed =>
         \A i \in Rows :
           LET r == campaigns_df[i] IN
           /\ r.leads_contacted = 0 =>
                /\ r.bounce_rate = Zero
                /\ r.total_reply_rate = Zero
                /\ r.human_reply_rate = Zero
                /\ r.automated_reply_rate = Zero
           /\ r.human_reply = 0 =>
                /\ r.semantic_interested_reply_rate = Zero
                /\ r.not_interested_reply_rate = Zero
                /\ r.objection_rate = Zero
    /\ pc = "rendered" =>
         /\ kpis.total_contacted = 0 =>
              /\ kpis.bounce_rate = Zero
              /\ kpis.overall_reply_rate = Zero
              /\ kpis.human_reply_rate = Zero
              /\ kpis.automated_rate = Zero
         /\ kpis.human_replies = 0 =>
              /\ kpis.interested_rate = Zero
              /\ kpis.not_interested_rate = Zero
              /\ "objection_rate" \in DOMAIN kpis => kpis.objection_rate = Zero

\* C3  Filtered-KPI hybrid denominator.  For a non-empty filtered lead subset
\* calculate_filtered_kpis reports the campaign's leads_contacted as
\* total_contacted and, the division being defined (leads_contacted > 0),
\* bounce_rate = bounced / leads_contacted * 100 of the campaign and
\* human_reply_rate = (human replies in the subset) / leads_contacted * 100.
C3_FilteredHybridDenominator ==
    (Called("calculate_filtered_kpis") /\ call.leads # {}) =>
        LET c == campaigns_data[CalledRow] IN
        /\ kpis.total_contacted = c.leads_contacted
        /\ c.leads_contacted > 0 =>
             /\ kpis.bounce_rate = Pct(c.bounced, c.leads_contacted)
             /\ kpis.human_reply_rate = Pct(HumanIn(call.leads), c.leads_contacted)

\* C3 witness: leads_contacted = 2, bounced = 1 and a filtered subset with one
\* human reply out of the campaign's two: 2, 50.0 and 50.0 are reported.
C3_Witness ==
    /\ Called("calculate_filtered_kpis")
    /\ Cardinality(call.leads) = 1
    /\ HumanIn(call.leads) = 1
    /\ HumanIn(LeadsOf(campaigns_df[CalledRow].campaign_id)) = 2
    /\ campaigns_data[CalledRow].leads_contacted = 2
    /\ campaigns_data[CalledRow].bounced = 1
    /\ kpis.total_contacted = 2
    /\ kpis.bounce_rate = Div(50, 1)
    /\ kpis.human_reply_rate = Div(50, 1)

\* C4  Unfiltered totals do not depend on the lead subset.  total_sent,
\* total_contacted, bounces and bounce_rate returned by the two filtered KPI
\* functions are the same for every filtered lead subset of the same
\* campaign input, the empty subset included; for the empty subset every
\* activity-based count and rate is 0.
NoActivity(k) ==
    /\ k.replies = 0 /\ k.human_replies = 0 /\ k.interested_replies = 0
    /\ k.not_interested_replies = 0 /\ k.automated_replies = 0 /\ k.objection = 0
    /\ k.overall_reply_rate = Zero /\ k.human_reply_rate = Zero
    /\ k.interested_rate = Zero /\ k.not_interested_rate = Zero
    /\ k.automated_rate = Zero /\ k.objection_rate = Zero

SameTotals(k1, k2) ==
    /\ k1.total_sent = k2.total_sent
    /\ k1.total_contacted = k2.total_contacted
    /\ k1.bounces = k2.bounces
    /\ k1.bounce_rate = k2.bounce_rate

C4_TotalsIndependentOfSubset ==
    /\ Called("calculate_filtered_kpis") =>
         /\ \A F \in SUBSET LeadsOf(campaigns_df[CalledRow].campaign_id) :
              SameTotals(kpis, calculate_filtered_kpis(campaigns_df[CalledRow],
                                                       SubTable(leads_df, F)))
         /\ call.leads = {} => NoActivity(kpis)
    /\ (Called("calculate_filtered_workspace_kpis") /\ campaigns_df # <<>>) =>
         /\ \A F \in SUBSET (1..Len(leads_df)) :
              SameTotals(kpis, calculate_filtered_workspace_kpis(campaigns_df,
                                                                 SubTable(leads_df, F)))
         /\ call.leads = {} => NoActivity(kpis)

\* the six aggregates of a processed row, and the counts the leads of
\* campaign id give for them
RowCounts(r) == [c \in calc_cols |-> r[c]]
StatusIn(L, vals) == Cardinality({j \in L : leads_df[j].status \in vals})
DerivedCounts(L) ==
    [c \in calc_cols |->
        CASE c = "human_reply"         -> HumanIn(L)
          [] c = "interested_sementic" -> StatusIn(L, {"Interested"})
          [] c = "not_interested"      -> StatusIn(L, {"Not Interested"})
          [] c = "automated_replies"   -> StatusIn(L, {"Automated Reply"})
          [] c = "objection"           -> StatusIn(L, {"Objection", "Objections"})
          [] c = "total_replies"       ->
                Cardinality({j \in L : leads_df[j].unique_replies >= 1})]
LeadsGiven == leads_arg = "table" /\ leads_df # <<>>

C6_NoLeadsAllZero ==
    pc = "loaded" =>
        \A i \in Rows :
            LeadsOf(campaigns_data[i].campaign_id) = {} =>
                LET r == campaigns_df[i] IN
                /\ \A c \in calc_cols : r[c] = 0
                /\ r.total_reply_rate = Zero
                /\ r.human_reply_rate = Zero
                /\ r.automated_reply_rate = Zero
                /\ r.semantic_interested_reply_rate = Zero
                /\ r.not_interested_reply_rate = Zero
                /\ r.objection_rate = Zero

\* C7  Leads-derived values take precedence.  When the raw records carry the
\* aggregate columns and a non-empty lead table is supplied, every output
\* row's aggregates are the counts derived from the leads (0 for a campaign
\* without leads), never the source value, and the output has exactly the
\* campaign, count and rate columns (no <name>_calc column).
OutputColumns ==
    {"campaign_id", "emails_sent", "leads_contacted", "bounced"}
        \cup calc_cols \cup rate_cols

CampaignIds == {campaigns_data[i].campaign_id : i \in 1..Len(campaigns_data)}
Orphans == {j \in 1..Len(leads_df) : leads_df[j].campaign_id \notin CampaignIds}

C8_NoOrphanSynthesis ==
    pc = "loaded" =>
        /\ Len(campaigns_df) = Len(campaigns_data)
        /\ \A i \in Rows :
             /\ campaigns_df[i].campaign_id = campaigns_data[i].campaign_id
             /\ LeadsGiven =>
                  RowCounts(campaigns_df[i]) =
                      DerivedCounts(LeadsOf(campaigns_df[i].campaign_id) \ Orphans)

\* C8 witness: a lead table with an orphan lead and a campaign without leads;
\* the campaign keeps its row, with zero aggregates.
C8_Witness ==
    /\ pc = "loaded"
    /\ LeadsGiven
    /\ Orphans # {}
    /\ Len(campaigns_data) = 2
    /\ Len(campaigns_df) = 2
    /\ \E i \in Rows : \A c \in calc_cols : campaigns_df[i][c] = 0

\* C9  Aggregate-sum invariant.  For any split of the campaign table into two
\* subsets (either may be empty) each count calculate_kpis returns on the
\* whole table is the sum of the same count returned on the two subsets.
CountKeys ==
    {"total_sent", "total_contacted", "replies", "bounces", "human_replies",
     "interested_replies", "not_interested_replies", "automated_replies",
     "objection"}

C9_AggregateSum ==
    Called("calculate_kpis") =>
        \A A \in SUBSET Rows :
            LET kA == calculate_kpis(SubTable(campaigns_df, A))
                kB == calculate_kpis(SubTable(campaigns_df, Rows \ A))
            IN \A key \in CountKeys :
                 /\ key \in DOMAIN kpis
                 /\ key \in DOMAIN kA
                 /\ key \in DOMAIN kB
                 /\ kpis[key] = kA[key] + kB[key]

\* C10  Denominator-tier invariant.  In every processed campaign row the
\* interested, not-interested and objection rates add up to at most 1.0;
\* equivalently interested_sementic + not_interested + objection never
\* exceeds human_reply when human_reply > 0.  (Every lead of the model
\* carries exactly one status.)
C10_ClassificationRatesAtMostOne ==
    pc = "loaded" =>
        \A i \in Rows :
            LET r == campaigns_df[i] IN
            /\ Leq(Plus(Plus(r.semantic_interested_reply_rate,
                              r.not_interested_reply_rate), r.objection_rate),
                    Div(1, 1))
            /\ r.human_reply > 0 =>
                 r.interested_sementic + r.not_interested + r.objection
                     <= r.human_reply

\* --------------------------------------- components/kpi_cards.py
\* The keys render_kpi_cards reads by subscript (a missing one raises
\* KeyError); the counts it reads with .get(key, 0) cannot raise.
render_kpi_cards_subscripts ==
    {"total_contacted", "overall_reply_rate", "replies", "bounce_rate",
     "bounces", "automated_rate", "human_reply_rate", "objection_rate",
     "not_interested_rate", "interested_rate"}

render_kpi_cards(current_metrics) ==
    IF render_kpi_cards_subscripts \subseteq DOMAIN current_metrics
    THEN "rendered" ELSE "KeyError"

\* the metric keys of a KPI dictionary computed from a non-empty table
KpiKeys ==
    {"total_sent", "total_contacted", "overall_reply_rate", "bounce_rate",
     "replies", "bounces", "human_reply_rate", "human_replies",
     "interested_rate", "interested_replies", "not_interested_rate",
     "not_interested_replies", "automated_rate", "automated_replies",
     "objection_rate", "objection"}

KpiRateKeys ==
    {"overall_reply_rate", "bounce_rate", "human_reply_rate", "interested_rate",
     "not_interested_rate", "automated_rate", "objection_rate"}

\* C11  Empty input yields a complete zeroed KPI dictionary.  When the
\* processed campaign table is empty, calculate_kpis and
\* calculate_filtered_workspace_kpis return a dictionary holding every key of
\* the non-empty result, objection_rate and objection included, each 0, and
\* render_kpi_cards reads it without a KeyError.
C11_EmptyInputCompleteKpis ==
    ((Called("calculate_kpis") \/ Called("calculate_filtered_workspace_kpis"))
        /\ campaigns_df = <<>>) =>
        /\ KpiKeys \subseteq DOMAIN kpis
        /\ \A k \in KpiKeys \cap DOMAIN kpis :
             kpis[k] = (IF k \in KpiRateKeys THEN Zero ELSE 0)
        /\ render_kpi_cards(kpis) = "rendered"

\* --------------------------------------------------- shared/date_utils.py
\* A naive datetime is the number of seconds since 2024-01-01 00:00:00, a
\* Monday; the calendar is that of the year 2024.  Microseconds are carried
\* unchanged by every operation below and are left out.
SecondsPerDay == 24 * 60 * 60
MonthLengths == <<31, 29, 31, 30, 31, 30, 31, 31, 30, 31, 30, 31>>

RECURSIVE MonthStartDay(_)
\* the day number of the first day of month m
MonthStartDay(m) ==
    IF m = 1 THEN 0 ELSE MonthStartDay(m - 1) + MonthLengths[m - 1]

\* the month a day number falls in
MonthOf(day) ==
    CHOOSE m \in 1..12 :
        MonthStartDay(m) <= day /\ day < MonthStartDay(m) + MonthLengths[m]

timedelta(days, hours, minutes, seconds) ==
    ((days * 24 + hours) * 60 + minutes) * 60 + seconds

date_of(t) == t \div SecondsPerDay
time_of(t) == t % SecondsPerDay
\* datetime.weekday(): Monday is 0
weekday(t) == date_of(t) % 7
\* replace(hour=0, minute=0, second=0, microsecond=0)
replace_midnight(t) == t - time_of(t)
\* replace(day=1): the time of day is kept
replace_day1(t) ==
    MonthStartDay(MonthOf(date_of(t))) * SecondsPerDay + time_of(t)
\* replace(hour=23, minute=59, second=59)
replace_end_of_day(t) == date_of(t) * SecondsPerDay + timedelta(0, 23, 59, 59)

\* datetime(2000, 1, 1): 24 years, six of them leap years, before the epoch
AllTimeStart == 0 - (24 * 365 + 6) * SecondsPerDay

\* an optional datetime argument
None == [some |-> FALSE, t |-> 0]
Some(t) == [some |-> TRUE, t |-> t]

today_start(today) == replace_midnight(today)

range_today(today) == <<today_start(today), today>>

this_week(today) ==
    <<today_start(today) - timedelta(weekday(today), 0, 0, 0), today>>

last_week_from_this_monday(today) ==
    LET start_date == today_start(today) - timedelta(weekday(today), 0, 0, 0)
    IN  <<start_date, start_date + timedelta(6, 23, 59, 59)>>

last_week(today) ==
    LET start_date == today_start(today) - timedelta(weekday(today) + 7, 0, 0, 0)
    IN  <<start_date, start_date + timedelta(6, 23, 59, 59)>>

last_7_days(today) == <<today_start(today) - timedelta(7, 0, 0, 0), today>>

last_30_days(today) == <<today_start(today) - timedelta(30, 0, 0, 0), today>>

this_month(today) == <<replace_day1(today_start(today)), today>>

last_month(today) ==
    LET last_month_end == replace_day1(today_start(today)) - timedelta(0, 0, 0, 1)
    IN  <<replace_day1(last_month_end), last_month_end>>

all_time(today) == <<AllTimeStart, today>>

custom_date_range(custom_start, custom_end) ==
    <<custom_start.t, replace_end_of_day(custom_end.t)>>

default_range(today) == <<today_start(today) - timedelta(7, 0, 0, 0), today>>

\* the tokens that have an if/elif branch of their own
branch_tokens ==
    {"Today", "This Week", "Last Week", "Last 7 Days", "Last 30 Days",
     "This Month", "Last Month", "All Time"}

\* no branch matches: the final return is reached
reaches_default(filter_option, custom_start, custom_end) ==
    /\ filter_option \notin branch_tokens
    /\ ~(filter_option = "Custom Date Range" /\ custom_start.some /\ custom_end.some)

get_date_range(filter_option, custom_start, custom_end, today) ==
    CASE filter_option = "Today"        -> range_today(today)
      [] filter_option = "This Week"    -> this_week(today)
      [] filter_option = "Last Week"    -> last_week(today)
      [] filter_option = "Last 7 Days"  -> last_7_days(today)
      [] filter_option = "Last 30 Days" -> last_30_days(today)
      [] filter_option = "This Month"   -> this_month(today)
      [] filter_option = "Last Month"   -> last_month(today)
      [] filter_option = "All Time"     -> all_time(today)
      [] filter_option = "Custom Date Range"
           /\ custom_start.some /\ custom_end.some
                                        -> custom_date_range(custom_start, custom_end)
      [] reaches_default(filter_option, custom_start, custom_end)
                                        -> default_range(today)

\* ---------------------------------------------------- utils/date_utils.py
\* The older copy of the resolver, used by components/linkedin_dashboard.py:
\* the same branches except that it has none for "All Time".
utils_branch_tokens ==
    {"Today", "This Week", "Last Week", "Last 7 Days", "Last 30 Days",
     "This Month", "Last Month"}

utils_reaches_default(filter_option, custom_start, custom_end) ==
    /\ filter_option \notin utils_branch_tokens
    /\ ~(filter_option = "Custom Date Range" /\ custom_start.some /\ custom_end.some)

utils_get_date_range(filter_option, custom_start, custom_end, today) ==
    CASE filter_option = "Today"        -> range_today(today)
      [] filter_option = "This Week"    -> this_week(today)
      [] filter_option = "Last Week"    -> last_week(today)
      [] filter_option = "Last 7 Days"  -> last_7_days(today)
      [] filter_option = "Last 30 Days" -> last_30_days(today)
      [] filter_option = "This Month"   -> this_month(today)
      [] filter_option = "Last Month"   -> last_month(today)
      [] filter_option = "Custom Date Range"
           /\ custom_start.some /\ custom_end.some
                                        -> custom_date_range(custom_start, custom_end)
      [] utils_reaches_default(filter_option, custom_start, custom_end)
                                        -> default_range(today)

\* ------------------------------- shared/date_utils.filter_dataframe_by_date
MaxDateRows == 2   \* rows of the table handed to the date filter
MaxDays     == 45  \* days "now" ranges over, from 1 February 2024 on

\* pd.to_datetime(errors='coerce'): a value that parses gives its instant,
\* text that does not parse and null give NaT
NaT == [nat |-> TRUE, t |-> 0]
to_datetime_coerce(cell) ==
    IF cell.kind = "ts" THEN [nat |-> FALSE, t |-> cell.t] ELSE NaT

\* (column >= start_date) & (column <= end_date); a comparison with NaT is False
date_mask_exclusive_end(d, start_date, end_date) ==
    ~d.nat /\ d.t >= start_date /\ d.t < end_date

date_mask(d, start_date, end_date) ==
    ~d.nat /\ d.t >= start_date /\ d.t <= end_date

filter_dataframe_by_date(df, has_column, start_date, end_date) ==
    IF df = <<>> \/ ~has_column
    THEN df
    ELSE LET conv == [i \in 1..Len(df) |->
                        [df[i] EXCEPT !.Date = to_datetime_coerce(df[i].Date)]]
         IN  SubTable(conv, {i \in 1..Len(conv) :
                                date_mask(conv[i].Date, start_date, end_date)})

\* ---------------------------------------------- date resolver and filter
FirstDay == MonthStartDay(2)
TimesOfDay == {0, timedelta(0, 12, 0, 0), timedelta(0, 23, 59, 59)}
Nows ==
    {d * SecondsPerDay + s : d \in FirstDay..(FirstDay + MaxDays - 1),
                             s \in TimesOfDay}

SupportedTokens ==
    {"Today", "This Week", "Last Week", "Last 7 Days", "Last 30 Days",
     "This Month", "Last Month", "All Time", "Custom Date Range"}
Tokens == SupportedTokens \cup {"Yesterday", ""}

\* st.date_input combined with datetime.min.time() / datetime.max.time()
CustomStarts == {None} \cup {Some(d * SecondsPerDay) : d \in {FirstDay, FirstDay + 1}}
CustomEnds ==
    {None} \cup {Some(d * SecondsPerDay + timedelta(0, 23, 59, 59)) :
                    d \in {FirstDay, FirstDay + 1}}

\* a Date cell of a raw row: an instant on or next to a bound of the
\* interval, text that is no timestamp, or null
DateCells(range) ==
    {[kind |-> "ts", t |-> t] :
        t \in {range[1] - 1, range[1], range[2], range[2] + 1}}
    \cup {[kind |-> "text", t |-> 0], [kind |-> "null", t |-> 0]}

DashIdle ==
    /\ campaigns_data = <<>> /\ leads_arg = "none" /\ leads_df = <<>>
    /\ campaigns_df = <<>> /\ pc = "idle" /\ call = NoCall /\ kpis = <<>>

InitDates ==
    /\ DashIdle
    /\ NormIdle
    /\ StoreIdle
    /\ now \in Nows
    /\ date_call \in [module : {"none"}, filter_option : Tokens,
                      custom_start : CustomStarts, custom_end : CustomEnds]
    /\ date_call.filter_option # "Custom Date Range" =>
          date_call.custom_start = None /\ date_call.custom_end = None
    /\ date_range = <<>>
    /\ date_df = [has_column |-> FALSE, rows |-> <<>>]
    /\ date_filtered = <<>>
    /\ dpc = "selected"

\* email_campaigns/components/filters.py: get_date_range of shared/date_utils
GetDateRange ==
    /\ dpc = "selected"
    /\ date_call' = [date_call EXCEPT !.module = "shared"]
    /\ date_range' = get_date_range(date_call.filter_option, date_call.custom_start,
                                    date_call.custom_end, now)
    /\ dpc' = "resolved"
    /\ UNCHANGED <<dashVars, normVars, storeVars, now, date_df, date_filtered>>

\* components/linkedin_dashboard.py: get_date_range of utils/date_utils
UtilsGetDateRange ==
    /\ dpc = "selected"
    /\ date_call' = [date_call EXCEPT !.module = "utils"]
    /\ date_range' = utils_get_date_range(date_call.filter_option, date_call.custom_start,
                                          date_call.custom_end, now)
    /\ dpc' = "resolved"
    /\ UNCHANGED <<dashVars, normVars, storeVars, now, date_df, date_filtered>>

\* render_campaign_analysis / render_workspace_overview: the lead table is
\* filtered by the resolved interval
FilterDataframeByDate ==
    /\ dpc = "resolved"
    /\ date_call.module = "shared"
    /\ \E k \in 0..MaxDateRows, has_column \in BOOLEAN :
       \E cells \in [1..k -> DateCells(date_range)] :
         LET df == [i \in 1..k |-> [id |-> i, Date |-> cells[i]]] IN
         /\ date_df' = [has_column |-> has_column, rows |-> df]
         /\ date_filtered' = filter_dataframe_by_date(df, has_column,
                                                      date_range[1], date_range[2])
    /\ dpc' = "filtered"
    /\ UNCHANGED <<dashVars, normVars, storeVars, now, date_call, date_range>>

NextDates ==
    \/ GetDateRange
    \/ UtilsGetDateRange
    \/ FilterDataframeByDate

SpecDates == InitDates /\ [][NextDates]_vars

\* ------------------------------------------------ date resolver properties
Resolved == dpc \in {"resolved", "filtered"}
Token == date_call.filter_option
\* the day number of the Monday of the week "now" falls in
ThisMonday ==
    CHOOSE d \in (date_of(now) - 6)..date_of(now) : d % 7 = 0
KeptIds == {date_filtered[i].id : i \in 1..Len(date_filtered)}

\* C12  Date filter inclusivity.  For a table that has the date column and
\* every interval [start, end], filter_dataframe_by_date returns, in order and
\* once each, exactly the rows whose value parses to an instant t with
\* start <= t <= end: rows at start and at end are kept, rows one second
\* outside either bound are dropped, and unparsable or null values are dropped.
C12_DateFilterInclusive ==
    (dpc = "filtered" /\ date_df.has_column) =>
        /\ \A i \in 1..Len(date_df.rows) :
             LET c == date_df.rows[i].Date IN
             i \in KeptIds <=>
                 (c.kind = "ts" /\ date_range[1] <= c.t /\ c.t <= date_range[2])
        /\ \A i, j \in 1..Len(date_filtered) :
             i < j => date_filtered[i].id < date_filtered[j].id

\* C12 witness: a two-row table with a row exactly at end, kept, and a row
\* one second after end, dropped.
C12_Witness ==
    /\ dpc = "filtered" /\ date_df.has_column
    /\ date_range[1] < date_range[2]
    /\ Len(date_df.rows) = 2
    /\ date_df.rows[1].Date = [kind |-> "ts", t |-> date_range[2]]
    /\ date_df.rows[2].Date = [kind |-> "ts", t |-> date_range[2] + 1]
    /\ KeptIds = {1}

\* C13  Last Week resolution.  For every "now", "Last Week" resolves to
\* start = 00:00:00 of the Monday seven days before this week's Monday and
\* end = 23:59:59 of the Sunday just before this week's Monday, so the
\* interval ends before the current week begins.
C13_LastWeekBlock ==
    (Resolved /\ Token = "Last Week") =>
        /\ date_range[1] = (ThisMonday - 7) * SecondsPerDay
        /\ date_range[2] = ThisMonday * SecondsPerDay - 1
        /\ weekday(date_range[1]) = 0 /\ time_of(date_range[1]) = 0
        /\ weekday(date_range[2]) = 6
        /\ time_of(date_range[2]) = timedelta(0, 23, 59, 59)
        /\ date_range[2] < ThisMonday * SecondsPerDay

\* C13 witness: "now" is noon on a Wednesday and the resolved block is the
\* Monday nine days earlier to the Sunday three days earlier.
C13_Witness ==
    /\ Resolved /\ Token = "Last Week"
    /\ weekday(now) = 2 /\ time_of(now) = timedelta(0, 12, 0, 0)
    /\ date_range[1] = replace_midnight(now) - timedelta(9, 0, 0, 0)
    /\ date_range[2] = replace_midnight(now) - timedelta(2, 0, 0, 1)

\* C14  Last Month resolution.  For every "now", "Last Month" resolves to the
\* first instant (00:00:00 on day 1) of the previous calendar month through
\* its last instant (23:59:59 on its last day).
C14_LastMonthWholeMonth ==
    (Resolved /\ Token = "Last Month") =>
        LET m == MonthOf(date_of(now)) IN
        /\ date_range[1] = MonthStartDay(m - 1) * SecondsPerDay
        /\ date_range[2] = MonthStartDay(m) * SecondsPerDay - 1

\* C15  Rolling windows are measured from now.  "Last 7 Days" resolves to
\* (now - 7 days, now) and "Last 30 Days" to (now - 30 days, now), for every
\* time of day of "now".
C15_RollingFromNow ==
    /\ (Resolved /\ Token = "Last 7 Days") =>
          date_range = <<now - timedelta(7, 0, 0, 0), now>>
    /\ (Resolved /\ Token = "Last 30 Days") =>
          date_range = <<now - timedelta(30, 0, 0, 0), now>>

\* C16  Unrecognized token default.  A token that is none of the nine
\* supported names, and "Custom Date Range" with a custom bound missing,
\* resolves to the interval "Last 7 Days" resolves to at the same "now"; no
\* supported token reaches the default return.
C16_UnrecognizedDefaultsToLast7 ==
    Resolved =>
        LET cs == date_call.custom_start
            ce == date_call.custom_end
            unmatched == \/ Token \notin SupportedTokens
                         \/ Token = "Custom Date Range" /\ ~(cs.some /\ ce.some)
        IN
        /\ date_call.module = "shared" =>
             /\ unmatched => date_range = get_date_range("Last 7 Days", None, None, now)
             /\ ~unmatched => ~reaches_default(Token, cs, ce)
        /\ date_call.module = "utils" =>
             /\ unmatched => date_range = utils_get_date_range("Last 7 Days", None, None, now)
             /\ ~unmatched => ~utils_reaches_default(Token, cs, ce)

\* ------------------------------------- data/processor.py: raw values
\* A raw value of one field of one fetched record: a number, a string, null,
\* a list of scalars, or "missing" when the record has no such key (NaN in
\* the DataFrame built from the records).
MaxRawRecords == 2  \* raw records handed to a normalizer

RawNum(n, d) == [kind |-> "num", v |-> Div(n, d), s |-> "", items |-> <<>>]
RawStr(s)    == [kind |-> "str", v |-> NaN, s |-> s, items |-> <<>>]
RawNull      == [kind |-> "null", v |-> NaN, s |-> "", items |-> <<>>]
RawMissing   == [kind |-> "missing", v |-> NaN, s |-> "", items |-> <<>>]
RawList(xs)  == [kind |-> "list", v |-> NaN, s |-> "", items |-> xs]

RawScalars ==
    {RawNum(2, 1), RawNum(0 - 1, 1), RawNum(3, 2),
     RawStr("2"), RawStr("abc"), RawNull, RawMissing}
RawNumericValues ==
    RawScalars \cup {RawList(<<RawNum(2, 1)>>),
                     RawList(<<RawNum(2, 1), RawNum(3, 1)>>),
                     RawList(<<>>)}
RawTextValues == {RawStr(" Interested "), RawStr("Interested"), RawNull, RawMissing}

\* campaign names as fetched: text, null, a missing key, a number, or a
\* single-select list holding one value
RawNameValues ==
    {RawStr("Interested"), RawStr(""), RawNull, RawMissing, RawNum(2, 1),
     RawList(<<RawStr("Interested")>>), RawList(<<RawStr("")>>),
     RawList(<<RawNum(2, 1)>>), RawList(<<RawNull>>), RawList(<<>>)}

\* the number a string spells, as pd.to_numeric reads it; NaN when it spells none
parse_number(s) ==
    CASE s = "2"   -> Div(2, 1)
      [] s = "3"   -> Div(3, 1)
      [] s = "1.5" -> Div(3, 2)
      [] s = "-1"  -> Div(0 - 1, 1)
      [] OTHER     -> NaN

\* lambda x: x[0] if isinstance(x, list) and len(x) > 0 else x
first_of_list(x) ==
    IF x.kind = "list" /\ Len(x.items) > 0 THEN x.items[1] ELSE x

\* pd.to_numeric(errors='coerce') on one value: what is no number or numeric
\* string (text, null, a missing key, any list) becomes NaN
to_numeric_coerce(x) ==
    CASE x.kind = "num" -> x.v
      [] x.kind = "str" -> parse_number(x.s)
      [] OTHER          -> NaN

\* astype(int) on a finite float: truncation toward zero, the sign is kept
astype_int(x) ==
    IF x.n >= 0 THEN Div(x.n \div x.d, 1) ELSE Div(0 - ((0 - x.n) \div x.d), 1)

\* str.strip() on the strings of the model
strip(s) == IF s = " Interested " THEN "Interested" ELSE s

\* astype(str).str.strip(): None becomes "None", NaN becomes "nan"
astype_str_strip(x) ==
    CASE x.kind = "str"     -> strip(x.s)
      [] x.kind = "null"    -> "None"
      [] x.kind = "missing" -> "nan"
      [] OTHER              -> "other"

\* Python truth value of a raw value (NaN, the missing key, is truthy)
truthy(x) ==
    CASE x.kind = "num"  -> x.v # Zero
      [] x.kind = "str"  -> x.s # ""
      [] x.kind = "list" -> Len(x.items) > 0
      [] x.kind = "null" -> FALSE
      [] OTHER           -> TRUE

\* str(x) on the scalars of the model
str(x) ==
    CASE x.kind = "str"           -> x.s
      [] x.kind = "num" /\ x.v = Div(2, 1) -> "2"
      [] x.kind = "num" /\ x.v = Div(3, 2) -> "1.5"
      [] x.kind = "num" /\ x.v = Div(0 - 1, 1) -> "-1"
      [] x.kind = "missing"       -> "nan"
      [] OTHER                    -> "other"

NumOut(v) == [kind |-> "num", v |-> v, s |-> ""]
StrOut(s) == [kind |-> "str", v |-> NaN, s |-> s]

\* a cell that holds a fetched value as it came
ValueOut(x) == [kind |-> x.kind, v |-> x.v, s |-> x.s]

\* lambda x: x[0] if isinstance(x, list) and len(x) > 0
\*           else str(x) if x else 'Unknown'
clean_name(x) ==
    IF x.kind = "list" /\ Len(x.items) > 0
    THEN ValueOut(x.items[1])
    ELSE IF truthy(x) THEN StrOut(str(x)) ELSE StrOut("Unknown")

\* a column exists in the DataFrame when some record has the key
in_columns(col) == \E i \in 1..Len(col) : col[i].kind # "missing"

\* the result of a normalizer for one field
Returned(has_column, column) ==
    [raised |-> "none", has_column |-> has_column, column |-> column]
Raised(exc) == [raised |-> exc, has_column |-> FALSE, column |-> <<>>]

\* ---------------------- data/processor.py: the normalizers, field by field
\* Each normalizer treats the columns independently; a column is the
\* sequence of one field's raw values over the fetched records.
LeadNumericFields == {"is_human_reply", "replies", "unique_replies"}
LeadIdFields      == {"sequence_num", "campaign_id"}
LeadStringFields  == {"status", "bounce_type", "sender_inbox_esp", "lead_esp"}
CampaignNumericFields ==
    {"emails_sent", "replied", "bounced", "leads_contacted", "unique_replied"}
SequenceNumericFields ==
    {"sequence_num", "campaign_id", "order", "wait_in_days",
     "variant_from_step_id", "sequence_id"}

\* df[col] = None for a required column no record has
none_column(col) == [i \in 1..Len(col) |-> RawNull]

process_leads(field, col) ==
    IF field \in LeadIdFields
    THEN IF in_columns(col)
         THEN Returned(TRUE,
                [i \in 1..Len(col) |->
                   NumOut(astype_int(FillNa(to_numeric_coerce(first_of_list(col[i])))))])
         ELSE Returned(FALSE, <<>>)
    ELSE LET c == IF in_columns(col) THEN col ELSE none_column(col) IN
         IF field \in LeadNumericFields
         THEN Returned(TRUE,
                [i \in 1..Len(c) |-> NumOut(FillNa(to_numeric_coerce(c[i])))])
         ELSE Returned(TRUE,
                [i \in 1..Len(c) |-> StrOut(astype_str_strip(c[i]))])

\* process_campaigns on raw values; leads_given: a non-empty lead table with a
\* campaign_id column is passed, so the aggregates are merged on campaign_id
process_campaigns_raw(field, col, leads_given) ==
    IF field = "Name"
    THEN IF in_columns(col)
         THEN Returned(TRUE, [i \in 1..Len(col) |-> clean_name(col[i])])
         ELSE Returned(TRUE, [i \in 1..Len(col) |-> StrOut("Unknown Campaign")])
    ELSE
    IF field = "campaign_id"
    THEN IF in_columns(col)
         THEN Returned(TRUE,
                [i \in 1..Len(col) |->
                   NumOut(astype_int(FillNa(to_numeric_coerce(first_of_list(col[i])))))])
         ELSE IF leads_given
              THEN Raised("KeyError")
              ELSE Returned(TRUE, [i \in 1..Len(col) |-> NumOut(Zero)])
    ELSE IF in_columns(col)
         THEN Returned(TRUE,
                [i \in 1..Len(col) |->
                   NumOut(FillNa(to_numeric_coerce(first_of_list(col[i]))))])
         ELSE Returned(TRUE, [i \in 1..Len(col) |-> NumOut(Zero)])

process_email_sequences(field, col) ==
    IF in_columns(col)
    THEN Returned(TRUE,
           [i \in 1..Len(col) |-> NumOut(FillNa(to_numeric_coerce(col[i])))])
    ELSE Returned(TRUE, [i \in 1..Len(col) |-> NumOut(Zero)])

\* ------------------------------------------------------ normalizer calls
RawColumns(values) == UNION {[1..k -> values] : k \in 1..MaxRawRecords}

NormalizerCalls ==
    [fn : {"process_leads"}, field : LeadNumericFields \cup LeadIdFields,
     leads_given : {FALSE}, column : RawColumns(RawNumericValues)]
    \cup
    [fn : {"process_leads"}, field : LeadStringFields,
     leads_given : {FALSE}, column : RawColumns(RawTextValues)]
    \cup
    [fn : {"process_campaigns"}, field : CampaignNumericFields \cup {"campaign_id"},
     leads_given : BOOLEAN, column : RawColumns(RawNumericValues)]
    \cup
    [fn : {"process_campaigns"}, field : {"Name"},
     leads_given : BOOLEAN, column : RawColumns(RawNameValues)]
    \cup
    [fn : {"process_email_sequences"}, field : SequenceNumericFields,
     leads_given : {FALSE}, column : RawColumns(RawNumericValues)]

\* a text column holds null beside a missing key in no fetched list
InitNormalize ==
    /\ DashIdle
    /\ DateIdle
    /\ StoreIdle
    /\ raw_records \in NormalizerCalls
    /\ raw_records.field \in LeadStringFields =>
         ~(\E i, j \in 1..Len(raw_records.column) :
             /\ raw_records.column[i].kind = "null"
             /\ raw_records.column[j].kind = "missing")
    /\ normalized = <<>>
    /\ renormalized = <<>>
    /\ npc = "fetched"

\* a normalizer's output handed back to it as raw records
as_raw_records(res, n) ==
    IF res.has_column
    THEN [i \in 1..n |-> [kind |-> res.column[i].kind, v |-> res.column[i].v,
                          s |-> res.column[i].s, items |-> <<>>]]
    ELSE [i \in 1..n |-> RawMissing]

OwnOutput == as_raw_records(normalized, Len(raw_records.column))

ProcessLeads ==
    /\ raw_records.fn = "process_leads"
    /\ \/ /\ npc = "fetched"
          /\ normalized' = process_leads(raw_records.field, raw_records.column)
          /\ npc' = "normalized"
          /\ UNCHANGED renormalized
       \/ /\ npc = "normalized" /\ normalized.raised = "none"
          /\ renormalized' = process_leads(raw_records.field, OwnOutput)
          /\ npc' = "renormalized"
          /\ UNCHANGED normalized
    /\ UNCHANGED <<dashVars, dateVars, storeVars, raw_records>>

ProcessCampaignsRaw ==
    /\ raw_records.fn = "process_campaigns"
    /\ \/ /\ npc = "fetched"
          /\ normalized' = process_campaigns_raw(raw_records.field, raw_records.column,
                                                 raw_records.leads_given)
          /\ npc' = "normalized"
          /\ UNCHANGED renormalized
       \/ /\ npc = "normalized" /\ normalized.raised = "none"
          /\ renormalized' = process_campaigns_raw(raw_records.field, OwnOutput,
                                                   raw_records.leads_given)
          /\ npc' = "renormalized"
          /\ UNCHANGED normalized
    /\ UNCHANGED <<dashVars, dateVars, storeVars, raw_records>>

ProcessEmailSequences ==
    /\ raw_records.fn = "process_email_sequences"
    /\ \/ /\ npc = "fetched"
          /\ normalized' = process_email_sequences(raw_records.field, raw_records.column)
          /\ npc' = "normalized"
          /\ UNCHANGED renormalized
       \/ /\ npc = "normalized" /\ normalized.raised = "none"
          /\ renormalized' = process_email_sequences(raw_records.field, OwnOutput)
          /\ npc' = "renormalized"
          /\ UNCHANGED normalized
    /\ UNCHANGED <<dashVars, dateVars, storeVars, raw_records>>

NextNormalize ==
    \/ ProcessLeads
    \/ ProcessCampaignsRaw
    \/ ProcessEmailSequences

SpecNormalize == InitNormalize /\ [][NextNormalize]_vars

\* ------------------------------------------------- normalizer properties
Normalized == npc = "normalized"
OutRows == 1..Len(normalized.column)
NumericOrIdField ==
    \/ raw_records.fn = "process_leads"
         /\ raw_records.field \in LeadNumericFields \cup LeadIdFields
    \/ raw_records.fn = "process_campaigns" /\ raw_records.field # "Name"
IdField == raw_records.field \in {"campaign_id", "sequence_num"}

\* C17  List unwrapping in normalization.  In process_leads and
\* process_campaigns every numeric or identifier field whose raw value is a
\* single-element list [x] is normalized to what the scalar x is normalized
\* to ([2] gives 2), and a list of several elements is normalized to 0.
C17_ListUnwrapping ==
    (Normalized /\ NumericOrIdField /\ normalized.has_column) =>
        \A i \in OutRows :
            LET x == raw_records.column[i] IN
            /\ (x.kind = "list" /\ Len(x.items) = 1) =>
                  normalized.column[i].v = x.items[1].v
            /\ (x.kind = "list" /\ Len(x.items) > 1) =>
                  normalized.column[i].v = Zero

\* C18  Identifier normalization.  After process_leads, process_campaigns and
\* process_email_sequences every campaign_id and sequence_num value is a
\* non-negative integer, whatever the raw value, and text that spells no
\* number becomes 0.
C18_IdsNonNegativeIntegers ==
    (Normalized /\ IdField) =>
        \A i \in OutRows :
            LET out == normalized.column[i].v IN
            /\ out.d = 1
            /\ out.n >= 0
            /\ raw_records.column[i] = RawStr("abc") => out = Zero

\* C19  campaign_id uniqueness.  In the table process_campaigns returns no
\* two rows have the same campaign_id, for every list of raw campaign records.
C19_CampaignIdUnique ==
    pc = "loaded" =>
        \A i, j \in Rows :
            campaigns_df[i].campaign_id = campaigns_df[j].campaign_id => i = j

\* C20  Missing columns are synthesized, never fatal.  When a declared column
\* is absent from every record of a non-empty raw list, process_leads and
\* process_campaigns return without raising and the output has the column,
\* holding "" in every row for a text column and 0 for a numeric one.
C20_MissingColumnsSynthesized ==
    (Normalized /\ raw_records.fn \in {"process_leads", "process_campaigns"}
        /\ ~in_columns(raw_records.column)) =>
        /\ normalized.raised = "none"
        /\ normalized.has_column
        /\ Len(normalized.column) = Len(raw_records.column)
        /\ \A i \in OutRows :
             normalized.column[i] =
                 (IF raw_records.field \in LeadStringFields \cup {"Name"}
                  THEN StrOut("") ELSE NumOut(Zero))


\* C21  Idempotence of normalization.  For every raw record list, applying
\* process_leads, process_campaigns (with the same lead table) or
\* process_email_sequences to its own output, re-expressed as raw records,
\* yields a table equal to the first output, column by column and row by row.
C21_NormalizationIdempotent ==
    npc = "renormalized" => renormalized = normalized


\* ------------------------------ data/data_processor.py: process_campaigns
\* The second process_campaigns takes the counts from the campaign records
\* and recomputes the rates; its automated_reply_rate for a row of counts:
data_automated_reply_rate_vs_contacted(r) ==
    IF r.leads_contacted > 0 THEN Div(r.automated_replies, r.leads_contacted) ELSE Zero
data_automated_reply_rate(r) ==
    IF r.human_reply > 0 THEN Div(r.automated_replies, r.human_reply) ELSE Zero

\* C27  Two denominators for automated_reply_rate.  For a campaign row with
\* automated_replies > 0 and human_reply different from leads_contacted, the
\* rate of email_campaigns/data/processor.py (automated_replies /
\* leads_contacted) and the rate of data/data_processor.py (automated_replies
\* / human_reply) are different values.
C27_AutomatedRateDenominatorsDiffer ==
    pc = "loaded" =>
        \A i \in Rows :
            LET r == campaigns_df[i] IN
            (r.automated_replies > 0 /\ r.human_reply # r.leads_contacted) =>
                /\ r.automated_reply_rate = automated_reply_rate(r)
                /\ data_automated_reply_rate(r) # r.automated_reply_rate

\* C27 witness: one automated reply, one human reply, two leads contacted:
\* 0.5 in one module and 1.0 in the other.
C27_Witness ==
    /\ pc = "loaded"
    /\ \E i \in Rows :
         /\ campaigns_df[i].automated_replies = 1
         /\ campaigns_df[i].human_reply = 1
         /\ campaigns_df[i].leads_contacted = 2
         /\ campaigns_df[i].automated_reply_rate = Div(1, 2)
         /\ data_automated_reply_rate(campaigns_df[i]) = Div(1, 1)


\* ---------------------------------------- the workspace overview, any list
\* As the dashboard, for every list of campaign records the store can hand
\* over (two records may carry the same campaign_id).
InitWorkspace ==
    /\ InitProcess
    /\ leads_arg = "table"
    /\ ~SrcColsExist(campaigns_data)

NextWorkspace ==
    \/ ProcessCampaigns
    \/ CalculateKpis
    \/ CalculateFilteredWorkspaceKpis

SpecWorkspace == InitWorkspace /\ [][NextWorkspace]_vars

\* C28  Filtered and all-time views agree when nothing is filtered out.  For
\* the table process_campaigns returns for a non-empty lead table in which
\* every lead references an existing campaign,
\* calculate_filtered_workspace_kpis(campaigns, leads) returns the same value
\* for every metric as calculate_kpis(campaigns).
C28_FilteredAgreesWithAllTime ==
    (/\ Called("calculate_filtered_workspace_kpis")
     /\ LeadsGiven
     /\ leads_df # <<>>
     /\ call.rows = Rows
     /\ call.leads = 1..Len(leads_df)) =>
        kpis = calculate_kpis(campaigns_df)


\* ------------------------------------------- core/database.py: the store
\* The external store holds a campaign table and a lead table.  A campaign
\* row is its campaign_id, a lead row is the campaign_id it references; a
\* table is the sequence of its rows in the store's physical order.
MaxStoreCampaigns == 3  \* campaign rows in the store at the start
MaxStoreLeads == 2      \* lead rows in the store at the start
MaxOps == 2             \* operations in one behaviour
limit == 2              \* rows per page request (1000 in fetch_all)
max_retries == 3        \* @retry_on_failure(max_retries=3)

\* the row create_campaign inserts
CreatedId == 0

Remove(rows, id) == SelectSeq(rows, LAMBDA r : r # id)
Count(rows, id) == Cardinality({i \in 1..Len(rows) : rows[i] = id})
SameRows(a, b) ==
    /\ Len(a) = Len(b)
    /\ \A i \in 1..Len(a) : Count(a, a[i]) = Count(b, a[i])

\* client.table(t).insert(data).execute()
store_insert(s, table, row) ==
    IF table = "campaigns"
    THEN [s EXCEPT !.campaigns = Append(@, row)]
    ELSE [s EXCEPT !.leads = Append(@, row)]

\* client.table(t).delete().eq('campaign_id', id).execute(); a store with
\* cascade delete removes the leads of a deleted campaign in the same step
store_delete(s, table, id) ==
    IF table = "campaigns"
    THEN [s EXCEPT !.campaigns = Remove(@, id),
                   !.leads = IF s.cascade THEN Remove(@, id) ELSE @]
    ELSE [s EXCEPT !.leads = Remove(@, id)]

\* the orders in which the store may hand over the rows of a query that has
\* no ORDER BY: the same order every time, or another order on a later
\* request (of all orders the physical one and its reverse are modelled)
RowOrders(s) ==
    LET n == Len(s.campaigns) IN
    IF s.stable_order
    THEN {[i \in 1..n |-> i]}
    ELSE {[i \in 1..n |-> i], [i \in 1..n |-> n + 1 - i]}

\* select("*").range(offset, offset + limit - 1), both ends inclusive
select_range(rows, order, offset) ==
    LET last == IF offset + limit < Len(rows) THEN offset + limit ELSE Len(rows)
    IN [i \in 1..(last - offset) |-> rows[order[offset + i]]]

\* ------------------------------ core/database.py: DatabaseClient and retry
NoDb ==
    [fn |-> "none", table |-> "", id |-> 0, status |-> "idle", attempt |-> 0,
     outcomes |-> <<>>, offset |-> 0, all_records |-> <<>>, result |-> <<>>,
     last_exception |-> "none", before |-> <<>>]

\* a call of a wrapped DatabaseClient method: the wrapper enters its loop
DbCall(c) ==
    [NoDb EXCEPT !.fn = c.fn, !.table = c.table, !.id = c.id,
                 !.status = "running", !.before = store]

\* try: return func(*args, **kwargs)
returned(d, value) ==
    [d EXCEPT !.status = "returned", !.result = value,
              !.outcomes = Append(@, "ok")]

\* except Exception as e: remember it, sleep and run the next attempt, or
\* leave the loop after the last attempt and raise last_exception
retry_on_failure_one_more(d, e) ==
    LET d1 == [d EXCEPT !.last_exception = e, !.outcomes = Append(@, e)] IN
    IF d.attempt < max_retries
    THEN [d1 EXCEPT !.attempt = @ + 1, !.offset = 0, !.all_records = <<>>]
    ELSE [d1 EXCEPT !.status = "raised"]
retry_on_failure(d, e) ==
    LET d1 == [d EXCEPT !.last_exception = e, !.outcomes = Append(@, e)] IN
    IF d.attempt < max_retries - 1
    THEN [d1 EXCEPT !.attempt = @ + 1, !.offset = 0, !.all_records = <<>>]
    ELSE [d1 EXCEPT !.status = "raised"]

\* one pass of the while loop of fetch_all with the page the store returned
fetch_all(d, data) ==
    IF data = <<>> THEN returned(d, d.all_records)
    ELSE IF Len(data) < limit THEN returned(d, d.all_records \o data)
    ELSE [d EXCEPT !.all_records = @ \o data, !.offset = @ + limit]

\* the store answers a request, applies it but loses the answer, or fails
Outcomes == {"ok", "lost", "fail"}
Applied(outcome) == outcome \in {"ok", "lost"}


otherVars == <<dashVars, dateVars, normVars>>

\* one attempt of insert: the row is appended when the store applies it
Insert ==
    /\ db.status = "running" /\ db.fn = "insert"
    /\ \E outcome \in Outcomes :
         /\ store' = IF Applied(outcome)
                     THEN store_insert(store, db.table, db.id) ELSE store
         /\ db' = IF outcome = "ok"
                  THEN returned(db, <<db.id>>)
                  ELSE retry_on_failure(db, "DatabaseConnectionError")
    /\ UNCHANGED <<otherVars, cache, api>>

\* one attempt of delete
Delete ==
    /\ db.status = "running" /\ db.fn = "delete"
    /\ \E outcome \in Outcomes :
         /\ store' = IF Applied(outcome)
                     THEN store_delete(store, db.table, db.id) ELSE store
         /\ db' = IF outcome = "ok"
                  THEN returned(db, <<>>)
                  ELSE retry_on_failure(db, "DatabaseConnectionError")
    /\ UNCHANGED <<otherVars, cache, api>>

\* one attempt of delete_many with the filter {'campaign_id': id}
DeleteMany ==
    /\ db.status = "running" /\ db.fn = "delete_many"
    /\ \E outcome \in Outcomes :
         /\ store' = IF Applied(outcome)
                     THEN store_delete(store, db.table, db.id) ELSE store
         /\ db' = IF outcome = "ok"
                  THEN returned(db, <<>>)
                  ELSE retry_on_failure(db, "DatabaseConnectionError")
    /\ UNCHANGED <<otherVars, cache, api>>

\* one attempt of fetch_by_id: a missing record raises ResourceNotFoundError,
\* which is re-raised to the wrapper like every other exception
FetchById ==
    /\ db.status = "running" /\ db.fn = "fetch_by_id"
    /\ \E outcome \in {"ok", "fail"} :
         db' = IF outcome = "fail"
               THEN retry_on_failure(db, "DatabaseConnectionError")
               ELSE IF Count(store.campaigns, db.id) = 0
                    THEN retry_on_failure(db, "ResourceNotFoundError")
                    ELSE returned(db, <<db.id>>)
    /\ UNCHANGED <<otherVars, store, cache, api>>

\* one page request of fetch_all
FetchAll ==
    /\ db.status = "running" /\ db.fn = "fetch_all"
    /\ \/ \E order \in RowOrders(store) :
            db' = fetch_all(db, select_range(store.campaigns, order, db.offset))
       \/ db' = retry_on_failure(db, "DatabaseConnectionError")
    /\ UNCHANGED <<otherVars, store, cache, api>>


\* -------------------------------------- api/, repositories: the operations
NoApi ==
    [fn |-> "none", arg |-> 0, calls |-> <<>>, i |-> 0, pc |-> "idle",
     before |-> <<>>, result |-> <<>>, ops |-> 0]

\* APIResponse.success / APIResponse.error (False or [] in the repositories)
Success(data) == [success |-> TRUE, data |-> data, error |-> "none", cached |-> FALSE]
Failure(e)    == [success |-> FALSE, data |-> <<>>, error |-> e, cached |-> FALSE]

\* the DatabaseClient calls of each write operation, in program order
create_campaign(data) ==
    <<[fn |-> "insert", table |-> "campaigns", id |-> data]>>
delete_campaign_campaign_first(campaign_id) ==
    <<[fn |-> "delete", table |-> "campaigns", id |-> campaign_id],
      [fn |-> "delete_many", table |-> "leads", id |-> campaign_id]>>
delete_campaign(campaign_id) ==
    <<[fn |-> "delete_many", table |-> "leads", id |-> campaign_id],
      [fn |-> "delete", table |-> "campaigns", id |-> campaign_id]>>
\* LinkedInCampaignAPI: the delete_many call is commented out
linkedin_delete_campaign(campaign_id) ==
    <<[fn |-> "delete", table |-> "campaigns", id |-> campaign_id]>>
repository_delete_campaign(campaign_id) ==
    <<[fn |-> "delete_many", table |-> "leads", id |-> campaign_id],
      [fn |-> "delete", table |-> "campaigns", id |-> campaign_id]>>

WriteOps ==
    {"EmailCampaignAPI.create_campaign", "EmailCampaignAPI.delete_campaign",
     "LinkedInCampaignAPI.delete_campaign", "LinkedInRepository.delete_campaign"}
ReadOps ==
    {"EmailRepository.get_campaigns", "EmailCampaignAPI.get_campaigns",
     "EmailCampaignAPI.get_campaign_by_id"}

calls_of(fn, arg) ==
    CASE fn = "EmailCampaignAPI.create_campaign"    -> create_campaign(arg)
      [] fn = "EmailCampaignAPI.delete_campaign"    -> delete_campaign(arg)
      [] fn = "LinkedInCampaignAPI.delete_campaign" -> linkedin_delete_campaign(arg)
      [] fn = "LinkedInRepository.delete_campaign"  -> repository_delete_campaign(arg)

Channel(fn) ==
    IF fn \in {"LinkedInCampaignAPI.delete_campaign", "LinkedInRepository.delete_campaign"}
    THEN "linkedin" ELSE "email"

Args(fn) ==
    CASE fn = "EmailCampaignAPI.create_campaign" -> {CreatedId}
      [] fn \in {"EmailRepository.get_campaigns", "EmailCampaignAPI.get_campaigns"} -> {0}
      [] OTHER -> 1..MaxStoreCampaigns

\* validate_campaign_id / validate_required_fields: the repository validates nothing
Validates(fn) == fn # "LinkedInRepository.delete_campaign"

CanStart(fn) == api.pc = "idle" /\ api.ops < MaxOps /\ store.channel = Channel(fn)
Waiting(fn) == api.fn = fn /\ api.pc = "calling"
Done(result) == [api EXCEPT !.pc = "idle", !.result = result]

\* a write operation: validation, the DatabaseClient calls one after the
\* other, st.cache_data.clear() and the success response; an exception on
\* the way is turned into the failure response and nothing else is run
WriteOp(fn) ==
    \/ /\ CanStart(fn)
       /\ \E arg \in Args(fn) : \E valid \in {TRUE, ~Validates(fn)} :
            IF valid
            THEN /\ api' = [fn |-> fn, arg |-> arg, calls |-> calls_of(fn, arg),
                            i |-> 1, pc |-> "calling", before |-> store,
                            result |-> <<>>, ops |-> api.ops + 1]
                 /\ db' = DbCall(calls_of(fn, arg)[1])
            ELSE /\ api' = [fn |-> fn, arg |-> arg, calls |-> <<>>,
                            i |-> 0, pc |-> "idle", before |-> store,
                            result |-> Failure("ValidationError"),
                            ops |-> api.ops + 1]
                 /\ db' = db
       /\ UNCHANGED <<otherVars, store, cache>>
    \/ /\ Waiting(fn) /\ db.status = "returned" /\ api.i < Len(api.calls)
       /\ api' = [api EXCEPT !.i = @ + 1]
       /\ db' = DbCall(api.calls[api.i + 1])
       /\ UNCHANGED <<otherVars, store, cache>>
    \/ /\ Waiting(fn) /\ db.status = "returned" /\ api.i = Len(api.calls)
       /\ cache' = {}
       /\ api' = Done(Success(db.result))
       /\ UNCHANGED <<otherVars, store, db>>
    \/ /\ Waiting(fn) /\ db.status = "raised"
       /\ api' = Done(Failure(db.last_exception))
       /\ UNCHANGED <<otherVars, store, cache, db>>

CreateCampaign == WriteOp("EmailCampaignAPI.create_campaign")
DeleteCampaign == WriteOp("EmailCampaignAPI.delete_campaign")
LinkedInDeleteCampaign == WriteOp("LinkedInCampaignAPI.delete_campaign")
RepositoryDeleteCampaign == WriteOp("LinkedInRepository.delete_campaign")

\* st.cache_data around a read: a cached return value is handed back without
\* running the function; otherwise the function runs and whatever it returns
\* (rows, or the failure result made from an exception) is stored
Entry(fn, arg) == {e \in cache : e.fn = fn /\ e.arg = arg}

CachedRead(fn, dbfn) ==
    \/ /\ CanStart(fn)
       /\ \E arg \in Args(fn) :
            IF Entry(fn, arg) # {}
            THEN /\ api' = [fn |-> fn, arg |-> arg, calls |-> <<>>, i |-> 0,
                            pc |-> "idle", before |-> store,
                            result |-> [(CHOOSE e \in Entry(fn, arg) : TRUE).value
                                           EXCEPT !.cached = TRUE],
                            ops |-> api.ops + 1]
                 /\ db' = db
            ELSE /\ api' = [fn |-> fn, arg |-> arg,
                            calls |-> <<[fn |-> dbfn, table |-> "campaigns", id |-> arg]>>,
                            i |-> 1, pc |-> "calling", before |-> store,
                            result |-> <<>>, ops |-> api.ops + 1]
                 /\ db' = DbCall([fn |-> dbfn, table |-> "campaigns", id |-> arg])
       /\ UNCHANGED <<otherVars, store, cache>>
    \/ /\ Waiting(fn) /\ db.status \in {"returned", "raised"}
       /\ LET value == IF db.status = "returned"
                       THEN Success(db.result)
                       ELSE Failure(db.last_exception)
          IN /\ cache' = cache \cup {[fn |-> fn, arg |-> api.arg, value |-> value]}
             /\ api' = Done(value)
       /\ UNCHANGED <<otherVars, store, db>>

RepositoryGetCampaigns == CachedRead("EmailRepository.get_campaigns", "fetch_all")
GetCampaigns == CachedRead("EmailCampaignAPI.get_campaigns", "fetch_all")
GetCampaignById == CachedRead("EmailCampaignAPI.get_campaign_by_id", "fetch_by_id")

\* an entry older than CACHE_TTL is dropped; entries are looked up only when
\* a read starts
CacheExpire ==
    /\ api.pc = "idle" /\ api.ops < MaxOps
    /\ \E e \in cache : cache' = cache \ {e}
    /\ UNCHANGED <<otherVars, store, db, api>>

\* the store of a channel at the start: campaigns 1..n, and leads that each
\* reference one of them.  The LinkedIn tables are configured with cascade
\* delete; for the email tables either configuration is possible.
InitStore ==
    /\ DashIdle
    /\ DateIdle
    /\ NormIdle
    /\ \E n \in 0..MaxStoreCampaigns :
       \E leads \in UNION {[1..k -> 1..n] : k \in 0..MaxStoreLeads} :
       \E channel \in {"email", "linkedin"} :
       \E cascade, stable \in BOOLEAN :
         /\ channel = "linkedin" => cascade
         /\ store = [campaigns |-> [i \in 1..n |-> i], leads |-> leads,
                     channel |-> channel, cascade |-> cascade,
                     stable_order |-> stable]
    /\ cache = {}
    /\ db = NoDb
    /\ api = NoApi

NextStore ==
    \/ CreateCampaign
    \/ DeleteCampaign
    \/ LinkedInDeleteCampaign
    \/ RepositoryDeleteCampaign
    \/ RepositoryGetCampaigns
    \/ GetCampaigns
    \/ GetCampaignById
    \/ CacheExpire
    \/ Insert
    \/ Delete
    \/ DeleteMany
    \/ FetchById
    \/ FetchAll

SpecStore == InitStore /\ [][NextStore]_vars

StoreTypeOK == api.ops \in 0..MaxOps /\ db.attempt \in 0..max_retries


\* the retry loop runs to its end: attempts follow one another without
\* waiting for anything but the store's answer and a finite sleep
DbStep == Insert \/ Delete \/ DeleteMany \/ FetchById \/ FetchAll
SpecStoreFair == SpecStore /\ WF_vars(DbStep)

\* ------------------------------------------------------ store properties
Finished(fn) == api.fn = fn /\ api.pc = "idle"
DeleteOps == WriteOps \ {"EmailCampaignAPI.create_campaign"}
DbDone == db.status \in {"returned", "raised"}
RowsChanged == store.campaigns # api.before.campaigns \/ store.leads # api.before.leads

C23_WriteThenInvalidate ==
    (api.fn \in WriteOps /\ api.pc = "idle" /\ RowsChanged) => cache = {}

\* C24  A failed write leaves no partial state.  When
\* EmailCampaignAPI.delete_campaign returns success = False the store holds
\* exactly the lead and campaign rows it held before the call.
C24_FailedDeleteLeavesStore ==
    (Finished("EmailCampaignAPI.delete_campaign") /\ ~api.result.success) =>
        ~RowsChanged

\* C25  Transparent pagination.  Against a store whose set of rows does not
\* change during the call, what fetch_all returns holds every row of the
\* table exactly once, for every row count, also after failed attempts.
C25_FetchAllEveryRowOnce ==
    (db.fn = "fetch_all" /\ db.status = "returned") =>
        SameRows(db.result, store.campaigns)

\* C26  Bounded retry.  A wrapped call invokes the operation at least once
\* and at most max_retries times, stops at the first successful attempt,
\* raises the exception of the last attempt when all fail (a
\* ResourceNotFoundError of fetch_by_id is retried like any other), and
\* always terminates.
C26_Attempts ==
    LET o == db.outcomes IN
    /\ Len(o) <= max_retries
    /\ \A i \in 1..Len(o) : o[i] = "ok" => (i = Len(o) /\ db.status = "returned")
    /\ db.status = "running" => Len(o) = db.attempt
    /\ db.status = "returned" => (Len(o) >= 1 /\ o[Len(o)] = "ok")
    /\ db.status = "raised" =>
         (Len(o) = max_retries /\ db.last_exception = o[Len(o)])
C26_BoundedRetry ==
    /\ []C26_Attempts
    /\ (db.status = "running") ~> DbDone

\* C26 witness: fetch_by_id for a missing record, given up after three
\* attempts of which the first failed at the store.
C26_Witness ==
    /\ db.fn = "fetch_by_id" /\ db.status = "raised"
    /\ db.outcomes = <<"DatabaseConnectionError", "ResourceNotFoundError",
                       "ResourceNotFoundError">>
    /\ db.last_exception = "ResourceNotFoundError"

\* C29  A fetch failure is not served from the cache.  A get_campaigns call
\* of the repository or the API that is answered from the cache is never
\* answered with the failure result of an earlier call.
C29_FailureNotCached ==
    (api.fn \in {"EmailRepository.get_campaigns", "EmailCampaignAPI.get_campaigns"}
        /\ api.pc = "idle" /\ api.result.cached) =>
        api.result.success

\* C30  Create is at-most-once under retry.  One call of insert, and so one
\* create_campaign call, adds at most one row to the store.
C30_CreateAtMostOnce ==
    /\ (db.fn = "insert" /\ DbDone) =>
          Len(store.campaigns) <= Len(db.before.campaigns) + 1
    /\ Finished("EmailCampaignAPI.create_campaign") =>
          Len(store.campaigns) <= Len(api.before.campaigns) + 1

====
